---- MODULE Spec2Model ----
(***************************************************************************)
(* The kill ring of src/main.js.  The file holds two variants of the       *)
(* extension: the first (lines 28-273) keeps one ring and one set of       *)
(* transient positions for the whole application and has a mark; the       *)
(* second (lines 302-468) stores a KillRing object on each editor.         *)
(*                                                                         *)
(* An editor of the host is a document (a flat sequence of characters,     *)
(* "\n" separating lines), a selection (anchor and head, as offsets into   *)
(* the document) and the CodeMirror "extending" flag.  The positions the   *)
(* extension sees and stores are {line, ch} records; OffToPos and PosToOff *)
(* convert, PosToOff clipping as CodeMirror does.                          *)
(***************************************************************************)
EXTENDS Integers, Sequences, FiniteSets, TLC

VARIABLES
    doc,              \* editor -> its document text
    head,             \* editor -> offset of the cursor (head of the selection)
    anchor,           \* editor -> offset of the selection anchor
    extending,        \* editor -> CodeMirror's extending flag
    focused,          \* EditorManager.getFocusedEditor()
    listeners,        \* editors that carry the keyEvent.brackets-kill-ring listener
    ring,             \* first variant: var ring
    index,            \* first variant: var index
    last_kill_begin,  \* first variant
    last_yank_begin,  \* first variant
    last_yank_end,    \* first variant
    mark,             \* first variant
    killRing,         \* second variant: editor -> editor.killRing
    lastCmd           \* the command or host event that ran last, and what it did

edVars  == <<doc, head, anchor, extending, focused, listeners>>
v1Vars  == <<ring, index, last_kill_begin, last_yank_begin, last_yank_end, mark>>
vars    == <<doc, head, anchor, extending, focused, listeners,
             ring, index, last_kill_begin, last_yank_begin, last_yank_end, mark,
             killRing, lastCmd>>

----------------------------------------------------------------------------
(* Bounds of the model *)

MaxDocLen == 2
MaxRingLen == 2
MaxEntryLen == 2

----------------------------------------------------------------------------
(* Values *)

Editors == {"A", "B"}
NoEditor == "none"
NL == "\n"
TypedChars == {"a"}

MAX_BUFFER_LENGTH == 100

NullIndex == -1
NullPos == [line |-> -1, ch |-> -1]
NullText == <<"null">>

Pos(l, c) == [line |-> l, ch |-> c]

----------------------------------------------------------------------------
(* The host's document: lines, positions, getRange, replaceRange *)

RECURSIVE Breaks(_, _)
Breaks(d, n) ==
    IF n = 0 THEN 0 ELSE Breaks(d, n - 1) + (IF d[n] = NL THEN 1 ELSE 0)

LineCount(d) == Breaks(d, Len(d)) + 1

RECURSIVE StartFrom(_, _, _)
StartFrom(d, l, i) ==
    IF l = 0 THEN i
    ELSE IF d[i + 1] = NL THEN StartFrom(d, l - 1, i + 1)
    ELSE StartFrom(d, l, i + 1)

LineStart(d, l) == StartFrom(d, l, 0)

RECURSIVE EndFrom(_, _)
EndFrom(d, i) ==
    IF i = Len(d) THEN i
    ELSE IF d[i + 1] = NL THEN i
    ELSE EndFrom(d, i + 1)

LineEnd(d, l) == EndFrom(d, LineStart(d, l))

getLineLength(d, l) == LineEnd(d, l) - LineStart(d, l)

OffToPos(d, off) ==
    LET l == Breaks(d, off) IN Pos(l, off - LineStart(d, l))

PosToOff(d, p) ==
    IF p.line < 0 THEN 0
    ELSE IF p.line >= LineCount(d) THEN Len(d)
    ELSE IF p.ch < 0 THEN LineStart(d, p.line)
    ELSE IF p.ch > getLineLength(d, p.line) THEN LineEnd(d, p.line)
    ELSE LineStart(d, p.line) + p.ch

getRange(d, from, to) == SubSeq(d, PosToOff(d, from) + 1, PosToOff(d, to))

Splice(d, text, f, t) == SubSeq(d, 1, f) \o text \o SubSeq(d, t + 1, Len(d))

AdjustOff(off, text, f, t) ==
    IF off < f THEN off
    ELSE IF off <= t THEN f + Len(text)
    ELSE off + Len(text) - (t - f)

getCursorPos(e) == OffToPos(doc[e], head[e])

hasSelection(e) == anchor[e] # head[e]

Min(a, b) == IF a <= b THEN a ELSE b
Max(a, b) == IF a >= b THEN a ELSE b

getSelection(e) ==
    [start |-> OffToPos(doc[e], Min(anchor[e], head[e])),
     end   |-> OffToPos(doc[e], Max(anchor[e], head[e]))]

Cmd(c, e, t, x) == [cmd |-> c, ed |-> e, text |-> t, threw |-> x]

----------------------------------------------------------------------------
(* First variant: the ring *)

(* push that sets the ring cursor to the new length *)
push_cursorAtLength(r, text) ==
    LET r1 == IF Len(r) > MAX_BUFFER_LENGTH THEN Tail(r) ELSE r
        r2 == Append(r1, text)
    IN  [ring |-> r2, index |-> Len(r2)]

push(r, text) ==
    LET r1 == IF Len(r) > MAX_BUFFER_LENGTH THEN Tail(r) ELSE r
        r2 == Append(r1, text)
    IN  [ring |-> r2, index |-> Len(r2) - 1]

(* With index null (an empty ring) the assignment ring[index] = ... sets a  *)
(* property named "null" on the array: no entry is added or changed.       *)
concat(r, i, text) ==
    IF i = NullIndex THEN r
    ELSE [r EXCEPT ![i + 1] = r[i + 1] \o text]

(* peek that forgets the ring cursor and reads the oldest entry *)
peek_oldest(r, i) == IF Len(r) > 0 THEN r[1] ELSE NullText

(* peek that answers an empty ring with the empty text *)
peek_emptyText(r, i) == IF Len(r) > 0 THEN r[i + 1] ELSE <<>>

peek(r, i) == IF Len(r) > 0 THEN r[i + 1] ELSE NullText

(* rotate that does not move the cursor *)
rotate_stays(r, i) == i

(* rotate that stops at the oldest entry instead of wrapping *)
rotate_noWrap(r, i) ==
    IF i # NullIndex
    THEN IF i > 0 THEN i - 1 ELSE 0
    ELSE i

rotate(r, i) ==
    IF i # NullIndex
    THEN IF i > 0 THEN i - 1 ELSE Len(r) - 1
    ELSE i

(* The ring and the transient positions that the commands use on editor e: *)
(* the first variant declares them once, for all editors.                  *)
stateOf(e) == <<ring, index, last_kill_begin, last_yank_begin, last_yank_end>>

----------------------------------------------------------------------------
(* First variant: the mark *)

clearMarkAnchor(e, a) == [a EXCEPT ![e] = head[e]]

(* _clearMark that collapses the selection and keeps the mark *)
_clearMark_keepsMark(e) ==
    /\ mark' = mark
    /\ extending' = [extending EXCEPT ![e] = FALSE]
    /\ anchor' = clearMarkAnchor(e, anchor)

_clearMark(e) ==
    /\ mark' = NullPos
    /\ extending' = [extending EXCEPT ![e] = FALSE]
    /\ anchor' = clearMarkAnchor(e, anchor)

_setMark(e) ==
    /\ mark' = getCursorPos(e)
    /\ extending' = [extending EXCEPT ![e] = TRUE]
    /\ anchor' = anchor

toggleMark ==
    /\ lastCmd' = Cmd("other", focused, <<>>, FALSE)
    /\ IF focused = NoEditor
       THEN UNCHANGED <<edVars, v1Vars, killRing>>
       ELSE /\ IF mark # NullPos THEN _clearMark(focused) ELSE _setMark(focused)
            /\ UNCHANGED <<doc, head, focused, listeners, ring, index,
                           last_kill_begin, last_yank_begin, last_yank_end, killRing>>

----------------------------------------------------------------------------
(* First variant: kill *)

killSpan(e) ==
    LET d == doc[e]
        cursor == getCursorPos(e)
        startRange == IF hasSelection(e) THEN getSelection(e).start
                      ELSE Pos(cursor.line, cursor.ch)
        endRange0 == IF hasSelection(e) THEN getSelection(e).end
                     ELSE Pos(cursor.line, getLineLength(d, cursor.line))
        text0 == getRange(d, startRange, endRange0)
        endRange == IF text0 = <<>> THEN Pos(startRange.line + 1, 0) ELSE endRange0
    IN  [startRange |-> startRange, endRange |-> endRange,
         text |-> getRange(d, startRange, endRange)]

killConcats(lkb, startRange) ==
    /\ lkb # NullPos
    /\ lkb.line = startRange.line
    /\ lkb.ch = startRange.ch

killClearsMark(e) == hasSelection(e) /\ mark # NullPos

(* kill that moves the anchor only when it killed some text *)
killAnchor_ifKilled(text, startRange) ==
    IF Len(text) > 0 THEN startRange ELSE last_kill_begin

killAnchor(text, startRange) == startRange

kill ==
    IF focused = NoEditor
    THEN /\ lastCmd' = Cmd("kill", NoEditor, <<>>, FALSE)
         /\ UNCHANGED <<edVars, v1Vars, killRing>>
    ELSE
    LET e == focused
        d == doc[e]
        k == killSpan(e)
        f == PosToOff(d, k.startRange)
        t == PosToOff(d, k.endRange)
        clears == killClearsMark(e)
        anchor1 == IF clears THEN clearMarkAnchor(e, anchor) ELSE anchor
        joins == killConcats(last_kill_begin, k.startRange)
        pushed == push(ring, k.text)
    IN  /\ IF Len(k.text) > 0
           THEN /\ IF joins
                   THEN /\ index # NullIndex => Len(ring[index + 1]) + Len(k.text) <= MaxEntryLen
                        /\ ring' = concat(ring, index, k.text)
                        /\ index' = index
                   ELSE /\ Len(ring) < MaxRingLen
                        /\ ring' = pushed.ring
                        /\ index' = pushed.index
                /\ doc' = [doc EXCEPT ![e] = Splice(d, <<>>, f, t)]
                /\ head' = [head EXCEPT ![e] = AdjustOff(head[e], <<>>, f, t)]
                /\ anchor' = [anchor1 EXCEPT ![e] = AdjustOff(anchor1[e], <<>>, f, t)]
           ELSE /\ UNCHANGED <<ring, index, doc, head>>
                /\ anchor' = anchor1
        /\ mark' = IF clears THEN NullPos ELSE mark
        /\ extending' = IF clears THEN [extending EXCEPT ![e] = FALSE] ELSE extending
        /\ last_kill_begin' = killAnchor(k.text, k.startRange)
        /\ last_yank_begin' = NullPos
        /\ last_yank_end' = NullPos
        /\ lastCmd' = Cmd("kill", e, k.text, FALSE)
        /\ UNCHANGED <<focused, listeners, killRing>>

----------------------------------------------------------------------------
(* First variant: yank and yank again *)

yankClearsKill(text) == text # NullText

yankAt(e, i, again) ==
    LET d == doc[e]
        text == peek(ring, i)
        cursor == getCursorPos(e)
        f == IF again THEN PosToOff(d, last_yank_begin) ELSE head[e]
        t == IF again THEN PosToOff(d, last_yank_end) ELSE head[e]
        d1 == Splice(d, text, f, t)
        h1 == AdjustOff(head[e], text, f, t)
    IN  /\ index' = i
        /\ ring' = ring
        /\ IF text # NullText
           THEN /\ Len(d1) <= MaxDocLen
                /\ doc' = [doc EXCEPT ![e] = d1]
                /\ head' = [head EXCEPT ![e] = h1]
                /\ anchor' = [anchor EXCEPT ![e] = AdjustOff(anchor[e], text, f, t)]
                /\ last_yank_begin' = IF again THEN last_yank_begin
                                      ELSE Pos(cursor.line, cursor.ch)
                /\ last_yank_end' = OffToPos(d1, h1)
           ELSE UNCHANGED <<doc, head, anchor, last_yank_begin, last_yank_end>>
        /\ last_kill_begin' = IF yankClearsKill(text) THEN NullPos ELSE last_kill_begin
        /\ UNCHANGED <<extending, focused, listeners, mark, killRing>>

yank ==
    IF focused = NoEditor
    THEN /\ lastCmd' = Cmd("yank", NoEditor, <<>>, FALSE)
         /\ UNCHANGED <<edVars, v1Vars, killRing>>
    ELSE /\ yankAt(focused, index, FALSE)
         /\ lastCmd' = Cmd("yank", focused, peek(ring, index), FALSE)

(* yank again that does not compare the cursor with the end of the yank range *)
yankPopGuard_anywhere(e) == last_yank_end # NullPos

yankPopGuard(e) ==
    LET cursor == getCursorPos(e)
    IN  /\ last_yank_end # NullPos
        /\ cursor.line = last_yank_end.line
        /\ cursor.ch = last_yank_end.ch

yank_pop ==
    IF focused = NoEditor
    THEN /\ lastCmd' = Cmd("yank_pop", NoEditor, <<>>, FALSE)
         /\ UNCHANGED <<edVars, v1Vars, killRing>>
    ELSE IF yankPopGuard(focused)
    THEN /\ yankAt(focused, rotate(ring, index), TRUE)
         /\ lastCmd' = Cmd("yank_pop", focused, peek(ring, rotate(ring, index)), FALSE)
    ELSE /\ lastCmd' = Cmd("yank_pop", focused, NullText, FALSE)
         /\ UNCHANGED <<edVars, v1Vars, killRing>>

----------------------------------------------------------------------------
(* First variant: the listeners *)

installEditorListener(e, ls) == IF e = NoEditor THEN ls ELSE ls \cup {e}

uninstallEditorListener(e, ls) == ls \ {e}

keyEscape ==
    /\ focused # NoEditor
    /\ focused \in listeners
    /\ _clearMark(focused)
    /\ lastCmd' = Cmd("other", focused, <<>>, FALSE)
    /\ UNCHANGED <<doc, head, focused, listeners, ring, index,
                   last_kill_begin, last_yank_begin, last_yank_end, killRing>>

handleEditorChange(newEditor) ==
    LET oldEditor == focused
        touched == {oldEditor, newEditor} \ {NoEditor}
    IN  /\ newEditor # oldEditor
        /\ focused' = newEditor
        /\ mark' = NullPos
        /\ extending' = [e \in Editors |-> IF e \in touched THEN FALSE ELSE extending[e]]
        /\ anchor' = [e \in Editors |-> IF e \in touched THEN head[e] ELSE anchor[e]]
        /\ listeners' = installEditorListener(newEditor,
                            uninstallEditorListener(oldEditor, listeners))
        /\ lastCmd' = Cmd("focus", newEditor, <<>>, FALSE)
        /\ UNCHANGED <<doc, head, ring, index,
                       last_kill_begin, last_yank_begin, last_yank_end, killRing>>

----------------------------------------------------------------------------
(* The user acting on the focused editor *)

moveCursor(off, shift) ==
    LET e == focused
    IN  /\ e # NoEditor
        /\ off \in 0..Len(doc[e])
        /\ off # head[e]
        /\ head' = [head EXCEPT ![e] = off]
        /\ anchor' = IF extending[e] \/ shift THEN anchor
                     ELSE [anchor EXCEPT ![e] = off]
        /\ lastCmd' = Cmd("other", e, <<>>, FALSE)
        /\ UNCHANGED <<doc, extending, focused, listeners, v1Vars, killRing>>

typeChar(c) ==
    LET e == focused
        f == Min(anchor[e], head[e])
        t == Max(anchor[e], head[e])
        d1 == Splice(doc[e], <<c>>, f, t)
    IN  /\ e # NoEditor
        /\ Len(d1) <= MaxDocLen
        /\ doc' = [doc EXCEPT ![e] = d1]
        /\ head' = [head EXCEPT ![e] = f + 1]
        /\ anchor' = [anchor EXCEPT ![e] = f + 1]
        /\ lastCmd' = Cmd("other", e, <<>>, FALSE)
        /\ UNCHANGED <<extending, focused, listeners, v1Vars, killRing>>

----------------------------------------------------------------------------------------------------------------------------------------------------
(* Second variant: a KillRing object on each editor *)

KillRing == [defined |-> TRUE, ring |-> <<>>, index |-> NullIndex,
             last_yank_begin |-> NullPos, last_yank_end |-> NullPos]

NoKillRing == [KillRing EXCEPT !.defined = FALSE]

KillRing_push(kr, text) ==
    LET r1 == IF Len(kr.ring) > MAX_BUFFER_LENGTH THEN Tail(kr.ring) ELSE kr.ring
        r2 == Append(r1, text)
    IN  [kr EXCEPT !.ring = r2, !.index = Len(r2) - 1]

KillRing_peek(kr) == IF Len(kr.ring) > 0 THEN kr.ring[kr.index + 1] ELSE NullText

KillRing_rotate(kr) ==
    IF kr.index # NullIndex
    THEN IF kr.index > 0 THEN [kr EXCEPT !.index = kr.index - 1]
         ELSE [kr EXCEPT !.index = Len(kr.ring) - 1]
    ELSE kr

(* The ring is created on first use; the callers store the result back. *)
_getKillRing(e) == IF killRing[e].defined THEN killRing[e] ELSE KillRing

_kill ==
    IF focused = NoEditor
    THEN /\ lastCmd' = Cmd("_kill", NoEditor, <<>>, FALSE)
         /\ UNCHANGED <<edVars, v1Vars, killRing>>
    ELSE
    LET e == focused
        d == doc[e]
        kr == _getKillRing(e)
        cursor == getCursorPos(e)
        startRange == IF hasSelection(e) THEN getSelection(e).start
                      ELSE Pos(cursor.line, cursor.ch)
        endRange == IF hasSelection(e) THEN getSelection(e).end
                    ELSE Pos(cursor.line, getLineLength(d, cursor.line))
        text == getRange(d, startRange, endRange)
        f == PosToOff(d, startRange)
        t == PosToOff(d, endRange)
    IN  /\ Len(kr.ring) < MaxRingLen
        /\ killRing' = [killRing EXCEPT ![e] =
                [KillRing_push(kr, text) EXCEPT !.last_yank_begin = NullPos,
                                               !.last_yank_end = NullPos]]
        /\ doc' = [doc EXCEPT ![e] = Splice(d, <<>>, f, t)]
        /\ head' = [head EXCEPT ![e] = AdjustOff(head[e], <<>>, f, t)]
        /\ anchor' = [anchor EXCEPT ![e] = AdjustOff(anchor[e], <<>>, f, t)]
        /\ lastCmd' = Cmd("_kill", e, text, FALSE)
        /\ UNCHANGED <<extending, focused, listeners, v1Vars>>

_yankAt(e, kr, again) ==
    LET d == doc[e]
        text == KillRing_peek(kr)
        cursor == getCursorPos(e)
        f == IF again THEN PosToOff(d, kr.last_yank_begin) ELSE head[e]
        t == IF again THEN PosToOff(d, kr.last_yank_end) ELSE head[e]
        d1 == Splice(d, text, f, t)
        h1 == AdjustOff(head[e], text, f, t)
    IN  IF text # NullText
        THEN /\ Len(d1) <= MaxDocLen
             /\ doc' = [doc EXCEPT ![e] = d1]
             /\ head' = [head EXCEPT ![e] = h1]
             /\ anchor' = [anchor EXCEPT ![e] = AdjustOff(anchor[e], text, f, t)]
             /\ killRing' = [killRing EXCEPT ![e] =
                     [kr EXCEPT !.last_yank_begin =
                                    IF again THEN kr.last_yank_begin
                                    ELSE Pos(cursor.line, cursor.ch),
                                !.last_yank_end = OffToPos(d1, h1)]]
        ELSE /\ killRing' = [killRing EXCEPT ![e] = kr]
             /\ UNCHANGED <<doc, head, anchor>>

_yank ==
    IF focused = NoEditor
    THEN /\ lastCmd' = Cmd("_yank", NoEditor, <<>>, FALSE)
         /\ UNCHANGED <<edVars, v1Vars, killRing>>
    ELSE /\ _yankAt(focused, _getKillRing(focused), FALSE)
         /\ lastCmd' = Cmd("_yank", focused, KillRing_peek(_getKillRing(focused)), FALSE)
         /\ UNCHANGED <<extending, focused, listeners, v1Vars>>

_yank_pop ==
    IF focused = NoEditor
    THEN /\ lastCmd' = Cmd("_yank_pop", NoEditor, <<>>, FALSE)
         /\ UNCHANGED <<edVars, v1Vars, killRing>>
    ELSE
    LET e == focused
        kr == _getKillRing(e)
        cursor == getCursorPos(e)
    IN  IF kr.last_yank_end = NullPos
        THEN \* reading .line of null throws a TypeError
             /\ killRing' = [killRing EXCEPT ![e] = kr]
             /\ lastCmd' = Cmd("_yank_pop", e, NullText, TRUE)
             /\ UNCHANGED <<edVars, v1Vars>>
        ELSE IF cursor.line = kr.last_yank_end.line /\ cursor.ch = kr.last_yank_end.ch
        THEN /\ _yankAt(e, KillRing_rotate(kr), TRUE)
             /\ lastCmd' = Cmd("_yank_pop", e, KillRing_peek(KillRing_rotate(kr)), FALSE)
             /\ UNCHANGED <<extending, focused, listeners, v1Vars>>
        ELSE /\ killRing' = [killRing EXCEPT ![e] = kr]
             /\ lastCmd' = Cmd("_yank_pop", e, NullText, FALSE)
             /\ UNCHANGED <<edVars, v1Vars>>

(* The second variant listens to no focus event: the host alone moves the focus *)
focusEditor(e) ==
    /\ e # focused
    /\ focused' = e
    /\ lastCmd' = Cmd("other", e, <<>>, FALSE)
    /\ UNCHANGED <<doc, head, anchor, extending, listeners, v1Vars, killRing>>

----
(* A session with one editor, "A", which has or has not the focus *)

InitDocs == {<<"a">>, <<"a", NL>>}

Init ==
    /\ doc \in [Editors -> InitDocs \cup {<<>>}]
    /\ doc["A"] \in InitDocs
    /\ doc["B"] = <<>>
    /\ head = [e \in Editors |-> 0]
    /\ anchor = [e \in Editors |-> 0]
    /\ extending = [e \in Editors |-> FALSE]
    /\ focused \in {"A", NoEditor}
    /\ listeners = installEditorListener(focused, {})
    /\ ring = <<>>
    /\ index = NullIndex
    /\ last_kill_begin = NullPos
    /\ last_yank_begin = NullPos
    /\ last_yank_end = NullPos
    /\ mark = NullPos
    /\ killRing = [e \in Editors |-> NoKillRing]
    /\ lastCmd = Cmd("init", NoEditor, <<>>, FALSE)

Next ==
    \/ toggleMark
    \/ kill
    \/ yank
    \/ yank_pop
    \/ keyEscape
    \/ \E e \in {"A", NoEditor} : handleEditorChange(e)
    \/ \E off \in 0..MaxDocLen : moveCursor(off, FALSE)

Spec == Init /\ [][Next]_vars

----------------------------------------------------------------------------
(* A session with two editors in which the user also types *)

InitTwo ==
    /\ doc = [e \in Editors |-> IF e = "A" THEN <<"a", NL>> ELSE <<>>]
    /\ head = [e \in Editors |-> 0]
    /\ anchor = [e \in Editors |-> 0]
    /\ extending = [e \in Editors |-> FALSE]
    /\ focused = "A"
    /\ listeners = installEditorListener(focused, {})
    /\ ring = <<>>
    /\ index = NullIndex
    /\ last_kill_begin = NullPos
    /\ last_yank_begin = NullPos
    /\ last_yank_end = NullPos
    /\ mark = NullPos
    /\ killRing = [e \in Editors |-> NoKillRing]
    /\ lastCmd = Cmd("init", NoEditor, <<>>, FALSE)

NextTwo ==
    \/ kill
    \/ yank
    \/ yank_pop
    \/ \E e \in Editors : handleEditorChange(e)
    \/ \E off \in 0..MaxDocLen : moveCursor(off, FALSE)
    \/ \E c \in TypedChars : typeChar(c)

SpecTwo == InitTwo /\ [][NextTwo]_vars

----------------------------------------------------------------------------
(* The second variant, two editors *)

NextKR ==
    \/ _kill
    \/ _yank
    \/ _yank_pop
    \/ \E e \in Editors : focusEditor(e)
    \/ \E off \in 0..MaxDocLen, shift \in BOOLEAN : moveCursor(off, shift)

SpecKR == InitTwo /\ [][NextKR]_vars

----------------------------------------------------------------------------
(* The ring alone: push, concat and rotate applied to the first variant's ring *)

pushText ==
    /\ ring' = push(ring, <<"a">>).ring
    /\ index' = push(ring, <<"a">>).index
    /\ UNCHANGED <<edVars, last_kill_begin, last_yank_begin, last_yank_end, mark,
                   killRing, lastCmd>>

rotateRing ==
    /\ index' = rotate(ring, index)
    /\ UNCHANGED <<edVars, ring, last_kill_begin, last_yank_begin, last_yank_end, mark,
                   killRing, lastCmd>>

concatText ==
    /\ Len(ring) < MaxRingLen
    /\ index # NullIndex => Len(ring[index + 1]) < MaxEntryLen
    /\ ring' = concat(ring, index, <<"a">>)
    /\ UNCHANGED <<edVars, index, last_kill_begin, last_yank_begin, last_yank_end, mark,
                   killRing, lastCmd>>

NextRing == pushText \/ concatText \/ rotateRing

SpecRing == InitTwo /\ [][NextRing]_vars

----------------------------------------------------------------------------
(* Properties *)

IsSuffix(s, t) ==
    /\ Len(s) <= Len(t)
    /\ SubSeq(t, Len(t) - Len(s) + 1, Len(t)) = s

KillStep == lastCmd'.cmd = "kill" /\ lastCmd'.ed # NoEditor
YankStep == lastCmd'.cmd = "yank" /\ lastCmd'.ed # NoEditor
YankPopStep == lastCmd'.cmd = "yank_pop" /\ lastCmd'.ed # NoEditor

(* C1: the ring never holds more than MAX_BUFFER_LENGTH (100) entries,     *)
(* however many texts are pushed.                                          *)
CapacityBound == Len(ring) <= MAX_BUFFER_LENGTH

(* C2: a kill of non-empty text that directly follows a kill of non-empty  *)
(* text adds no entry: the number of entries stays, the entry under the    *)
(* ring cursor (the newest) ends with the first killed text and becomes    *)
(* itself followed by the second killed text; no other entry changes.      *)
Coalescing ==
    [][(/\ lastCmd.cmd = "kill" /\ lastCmd.text # <<>>
        /\ KillStep /\ lastCmd'.text # <<>>)
       => /\ ring # <<>>
          /\ Len(ring') = Len(ring)
          /\ index = Len(ring) - 1
          /\ index' = index
          /\ IsSuffix(lastCmd.text, ring[index + 1])
          /\ ring'[index + 1] = ring[index + 1] \o lastCmd'.text
          /\ \A i \in 1..Len(ring) : i # index + 1 => ring'[i] = ring[i]]_vars

(* C3: a kill of non-empty text that does not directly follow a kill (a    *)
(* cursor movement, a mark toggle, a focus change or a yank came between)  *)
(* starts a new ring entry.                                                *)
NonCoalescing ==
    [][(KillStep /\ lastCmd'.text # <<>> /\ lastCmd.cmd # "kill")
       => Len(ring') = Len(ring) + 1]_vars

(* C4: yank again directly after a fresh yank that inserted T1 at C moves  *)
(* the ring cursor one step back (wrapping from 0 to the last index) to    *)
(* T2, the document becomes the document with T1 at C replaced by T2, and  *)
(* the yank range afterwards runs from C to the end of T2.                 *)
YankAgainReplaces ==
    [][(/\ lastCmd.cmd = "yank" /\ lastCmd.ed # NoEditor /\ lastCmd.text # NullText
        /\ YankPopStep)
       => LET e  == lastCmd.ed
              T1 == lastCmd.text
              C  == PosToOff(doc[e], last_yank_begin)
              i2 == IF index > 0 THEN index - 1 ELSE Len(ring) - 1
              T2 == ring[i2 + 1]
          IN  /\ SubSeq(doc[e], C + 1, C + Len(T1)) = T1
              /\ ring' = ring
              /\ index' = i2
              /\ doc'[e] = SubSeq(doc[e], 1, C) \o T2
                              \o SubSeq(doc[e], C + Len(T1) + 1, Len(doc[e]))
              /\ head'[e] = C + Len(T2)
              /\ last_yank_begin' = last_yank_begin
              /\ last_yank_begin' = OffToPos(doc'[e], C)
              /\ last_yank_end' = OffToPos(doc'[e], C + Len(T2))]_vars

YankAgainReplacesWitness ==
    /\ lastCmd.cmd = "yank_pop"
    /\ lastCmd.text = <<"a">>
    /\ ring = << <<"a">>, <<NL>> >>
    /\ index = 0
    /\ doc["A"] = <<"a", "a">>
    /\ last_yank_begin = Pos(0, 1)
    /\ last_yank_end = Pos(0, 2)

(* C5: yank again with the yank range set and the cursor elsewhere than at *)
(* its end changes nothing: not the documents, the selections, the ring,   *)
(* the ring cursor, the yank range or the kill anchor.                     *)
YankAgainPrecondition ==
    [][(/\ YankPopStep
        /\ focused # NoEditor
        /\ last_yank_end # NullPos
        /\ getCursorPos(focused) # last_yank_end)
       => UNCHANGED <<doc, head, anchor, ring, index,
                      last_kill_begin, last_yank_begin, last_yank_end>>]_vars

YankAgainPreconditionWitness ==
    /\ lastCmd.cmd = "yank_pop"
    /\ lastCmd.text = NullText
    /\ focused # NoEditor
    /\ last_yank_end # NullPos
    /\ getCursorPos(focused) # last_yank_end
    /\ Len(ring) = 2

(* C6: no yank-again entry point faults when no yank range is set.         *)
YankAgainNeverFaults == ~lastCmd.threw

(* C7: a kill, yank or yank again on one editor leaves the ring, the ring  *)
(* cursor, the kill anchor and the yank range that the commands of every   *)
(* other editor use unchanged.                                             *)
PerBufferIndependence ==
    [][\A e \in Editors :
          (/\ lastCmd'.cmd \in {"kill", "yank", "yank_pop"}
           /\ lastCmd'.ed # NoEditor
           /\ lastCmd'.ed # e)
          => stateOf(e)' = stateOf(e)]_vars

(* C8: a fresh yank on a non-empty ring leaves the ring and its cursor     *)
(* alone, inserts the entry under the cursor at the editor's cursor, sets  *)
(* the yank range to (cursor before, cursor after); a second fresh yank    *)
(* directly after puts the same text directly behind the first.            *)
YankDoesNotConsume ==
    [][(YankStep /\ focused # NoEditor /\ ring # <<>>)
       => LET e == focused
              T == ring[index + 1]
              C == head[e]
          IN  /\ ring' = ring
              /\ index' = index
              /\ doc'[e] = SubSeq(doc[e], 1, C) \o T \o SubSeq(doc[e], C + 1, Len(doc[e]))
              /\ head'[e] = C + Len(T)
              /\ last_yank_begin' = OffToPos(doc[e], C)
              /\ last_yank_begin' = OffToPos(doc'[e], C)
              /\ last_yank_end' = OffToPos(doc'[e], C + Len(T))
              /\ (lastCmd.cmd = "yank" /\ lastCmd.ed = e /\ lastCmd.text # NullText)
                 => /\ lastCmd.text = T
                    /\ SubSeq(doc'[e], C - Len(T) + 1, C + Len(T)) = T \o T]_vars

YankDoesNotConsumeWitness ==
    /\ lastCmd.cmd = "yank"
    /\ lastCmd.text = <<"a">>
    /\ ring = << <<"a">> >>
    /\ doc["A"] = <<"a", "a">>
    /\ last_yank_begin = Pos(0, 1)
    /\ last_yank_end = Pos(0, 2)

(* C9: a kill on a focused editor while the mark is set leaves the mark    *)
(* absent, with or without a selection.                                    *)
KillClearsMark ==
    [][(KillStep /\ mark # NullPos) => mark' = NullPos]_vars

(* C10: after every yank on a focused editor the kill anchor is none.      *)
YankClearsKillAnchor ==
    [][YankStep => last_kill_begin' = NullPos]_vars

(* C11: after a focus change the mark is absent and neither the editor     *)
(* that lost the focus nor the one that gained it extends or holds a       *)
(* selection; after an escape key-up on the focused editor the mark is     *)
(* absent; toggleMark on a focused editor sets an absent mark (at the      *)
(* cursor) and clears a set one.                                           *)
MarkReset ==
    [][/\ lastCmd'.cmd = "focus"
          => /\ mark' = NullPos
             /\ \A e \in {focused, focused'} \ {NoEditor} :
                   ~extending'[e] /\ anchor'[e] = head'[e]
       /\ keyEscape
          => /\ mark' = NullPos
             /\ ~extending'[focused]
             /\ anchor'[focused] = head'[focused]
       /\ (toggleMark /\ focused # NoEditor)
          => /\ (mark = NullPos) # (mark' = NullPos)
             /\ mark = NullPos => mark' = OffToPos(doc[focused], head[focused])]_vars

MarkResetWitness ==
    /\ lastCmd.cmd = "focus"
    /\ lastCmd.ed = NoEditor
    /\ mark = NullPos
    /\ ~extending["A"]
    /\ ring # <<>>

(* C12: a yank or a yank again on a focused editor while the ring is empty *)
(* does not fault and changes neither the documents, the cursors and       *)
(* selections, the ring and its cursor, nor the yank range.                *)
EmptyRingYank ==
    [][((YankStep \/ YankPopStep) /\ ring = <<>>)
       => /\ ~lastCmd'.threw
          /\ lastCmd'.text = NullText
          /\ UNCHANGED <<doc, head, anchor, ring, index,
                         last_yank_begin, last_yank_end>>]_vars

EmptyRingYankWitness ==
    /\ lastCmd.cmd = "yank"
    /\ lastCmd.ed = "A"
    /\ lastCmd.text = NullText
    /\ ring = <<>>
    /\ last_yank_begin = NullPos
    /\ last_yank_end = NullPos

(* C13: every kill on a focused editor ends with the kill anchor at the    *)
(* start of its span and with no yank range; a kill with no selection and  *)
(* the cursor at the end of the document kills the empty text and leaves   *)
(* the document, the ring and the ring cursor unchanged.                   *)
EmptyKillAnchors ==
    [][KillStep
       => LET e == focused
              s == Min(anchor[e], head[e])
          IN  /\ last_kill_begin' = OffToPos(doc[e], s)
              /\ last_yank_begin' = NullPos
              /\ last_yank_end' = NullPos
              /\ (~hasSelection(e) /\ head[e] = Len(doc[e]))
                 => /\ lastCmd'.text = <<>>
                    /\ UNCHANGED <<doc, head, ring, index>>]_vars

EmptyKillAnchorsWitness ==
    /\ lastCmd.cmd = "kill"
    /\ lastCmd.ed = "A"
    /\ lastCmd.text = <<>>
    /\ ring = << <<"a">> >>
    /\ doc["A"] = <<NL>>
    /\ head["A"] = 1
    /\ last_kill_begin = Pos(1, 0)
    /\ last_yank_end = NullPos

(* C14: whenever a kill concatenates (non-empty text, kill anchor equal to *)
(* the span start) the ring is non-empty, the ring cursor is at the last   *)
(* index, and the killed text is appended to that newest entry.            *)
CoalescingTargetsTop ==
    [][(/\ KillStep
        /\ lastCmd'.text # <<>>
        /\ killConcats(last_kill_begin, killSpan(focused).startRange))
       => /\ ring # <<>>
          /\ index = Len(ring) - 1
          /\ Len(ring') = Len(ring)
          /\ ring'[Len(ring)] = ring[Len(ring)] \o lastCmd'.text]_vars

(* C15: a kill with a selection kills exactly the selection; without one   *)
(* it kills from the cursor to the end of the line, or, when nothing is    *)
(* left on the line, the line break behind the cursor. When that text is   *)
(* non-empty the document afterwards is the document before without the    *)
(* span, and the ring afterwards holds the text as a new last entry or at  *)
(* the end of the entry under the ring cursor.                             *)
KillSpanSelection ==
    [][KillStep
       => LET e   == focused
              d   == doc[e]
              s   == Min(anchor[e], head[e])
              eol == EndFrom(d, head[e])
              t   == IF anchor[e] # head[e] THEN Max(anchor[e], head[e])
                     ELSE IF eol > head[e] THEN eol
                     ELSE IF eol < Len(d) THEN eol + 1
                     ELSE eol
              T   == SubSeq(d, s + 1, t)
          IN  /\ lastCmd'.text = T
              /\ T # <<>>
                 => /\ doc'[e] = SubSeq(d, 1, s) \o SubSeq(d, t + 1, Len(d))
                    /\ \/ ring' = Append(ring, T)
                       \/ /\ ring # <<>>
                          /\ ring' = [ring EXCEPT ![index + 1] = ring[index + 1] \o T]]_vars

RECURSIVE rotateTimes(_, _, _)
rotateTimes(r, i, k) ==
    IF k = 0 THEN i ELSE rotateTimes(r, rotate(r, i), k - 1)

(* The yank range of editor e holds the entry under the ring cursor and    *)
(* the cursor of e stands at its end.                                      *)
YankedShown(e) ==
    LET d == doc[e]
        C == PosToOff(d, last_yank_begin)
        E == PosToOff(d, last_yank_end)
    IN  /\ last_yank_begin # NullPos
        /\ last_yank_end # NullPos
        /\ OffToPos(d, C) = last_yank_begin
        /\ OffToPos(d, E) = last_yank_end
        /\ head[e] = E
        /\ ring # <<>>
        /\ SubSeq(d, C + 1, E) = ring[index + 1]

(* C16: rotate leaves an empty ring's cursor alone; on a ring of n entries *)
(* n rotations visit every index once and return to the start. A           *)
(* successful yank leaves the entry under the ring cursor in the yank      *)
(* range with the cursor at its end; a yank again that directly follows a  *)
(* yank or yank again which left things so passes its guard, moves the     *)
(* ring cursor from i > 0 to i - 1 and from 0 to n - 1, changes no entry,  *)
(* replaces exactly the shown entry by the entry under the new cursor and  *)
(* leaves things so again, the rest of the document and the start of the   *)
(* yank range staying. So n yank-agains in a row after a yank restore the  *)
(* ring cursor and the document.                                           *)
RotationCycle ==
    [][/\ rotate(<<>>, NullIndex) = NullIndex
       /\ ring # <<>>
          => /\ rotateTimes(ring, index, Len(ring)) = index
             /\ {rotateTimes(ring, index, k) : k \in 0..(Len(ring) - 1)}
                   = 0..(Len(ring) - 1)
       /\ (YankStep /\ lastCmd'.text # NullText) => YankedShown(focused)'
       /\ (/\ lastCmd.cmd \in {"yank", "yank_pop"}
           /\ lastCmd.ed # NoEditor
           /\ lastCmd.text # NullText
           /\ YankedShown(lastCmd.ed)
           /\ YankPopStep)
          => LET e  == lastCmd.ed
                 d  == doc[e]
                 n  == Len(ring)
                 C  == PosToOff(d, last_yank_begin)
                 E  == PosToOff(d, last_yank_end)
                 i2 == IF index > 0 THEN index - 1 ELSE n - 1
                 T2 == ring[i2 + 1]
             IN  /\ ring' = ring
                 /\ index' = i2
                 /\ lastCmd'.text = T2
                 /\ doc'[e] = SubSeq(d, 1, C) \o T2 \o SubSeq(d, E + 1, Len(d))
                 /\ PosToOff(doc'[e], last_yank_begin') = C
                 /\ PosToOff(doc'[e], last_yank_end') = C + Len(T2)
                 /\ YankedShown(e)']_vars

RotationCycleWitness ==
    /\ lastCmd.cmd = "yank_pop"
    /\ lastCmd.text = <<NL>>
    /\ ring = << <<"a">>, <<NL>> >>
    /\ index = 1
    /\ doc["A"] = <<"a", NL>>
    /\ last_yank_begin = Pos(0, 1)
    /\ last_yank_end = Pos(1, 0)

(* C17: no entry of the shared ring or of any editor's KillRing is the     *)
(* empty text, so a successful yank inserts at least one character.        *)
NoEmptyEntries ==
    /\ \A i \in 1..Len(ring) : ring[i] # <<>>
    /\ \A e \in Editors :
          \A i \in 1..Len(killRing[e].ring) : killRing[e].ring[i] # <<>>
    /\ (/\ lastCmd.cmd \in {"yank", "_yank"}
        /\ lastCmd.ed # NoEditor
        /\ lastCmd.text # NullText)
       => lastCmd.text # <<>>

(* C18: in every reachable state the ring cursor is null exactly when the  *)
(* ring is empty and otherwise an index of the ring, so peek returns an    *)
(* entry of a non-empty ring; directly after every push, evicting or not,  *)
(* the ring cursor is the last index.                                      *)
RingCursorWellFormed ==
    /\ [](/\ (index = NullIndex) <=> (ring = <<>>)
          /\ ring # <<>> => /\ index \in 0..(Len(ring) - 1)
                            /\ peek(ring, index) = ring[index + 1])
    /\ [][pushText => index' = Len(ring') - 1]_vars

RingCursorWellFormedWitness ==
    /\ Len(ring) = MAX_BUFFER_LENGTH + 1
    /\ index = MAX_BUFFER_LENGTH
    /\ ring[1] = <<"a">>
    /\ peek(ring, index) = <<"a">>

(* C19: whenever a kill deletes a non-empty text T from the document, the  *)
(* ring afterwards is non-empty and the entry under the ring cursor, the   *)
(* one an immediate yank inserts, ends with T.                             *)
KilledTextKept ==
    [][(KillStep /\ doc'[focused] # doc[focused])
       => LET T == lastCmd'.text
          IN  /\ Len(doc'[focused]) = Len(doc[focused]) - Len(T)
              /\ peek(ring', index') # NullText
              /\ IsSuffix(T, peek(ring', index'))]_vars

(* C20: whenever a yank again passes its guard and replaces a range, the   *)
(* yank range is set with its start not behind its end and the text of the *)
(* focused document in that range is the entry under the ring cursor, the  *)
(* text that the latest yank or yank again inserted.                       *)
YankAgainOverwritesYanked ==
    [][(YankPopStep /\ lastCmd'.text # NullText)
       => LET d == doc[focused]
              b == PosToOff(d, last_yank_begin)
              e == PosToOff(d, last_yank_end)
          IN  /\ last_yank_begin # NullPos
              /\ last_yank_end # NullPos
              /\ b <= e
              /\ OffToPos(d, b) = last_yank_begin
              /\ OffToPos(d, e) = last_yank_end
              /\ SubSeq(d, b + 1, e) = ring[index + 1]]_vars

====
